---- MODULE Spec2Model ----
(***************************************************************************)
(* Model of IpSubnetCalculator (src/src/ip-subnet-calculator.ts).          *)
(*                                                                         *)
(* Representation of JavaScript values.                                    *)
(*                                                                         *)
(*  number  [type |-> "number", hi, lo, fr] stands for the number          *)
(*          hi * 2^16 + lo + fr/2, with lo in 0..2^16-1, hi any integer    *)
(*          and fr in 0..1.  Two 16-bit limbs are needed because the       *)
(*          program's values range over 0..2^32 and beyond, which is more  *)
(*          than the integers of the model checker hold.  fr = 1 marks a   *)
(*          number with a fractional part (1.5 is Frac(0, 1)).             *)
(*  string  [type |-> "string", chars] with chars the sequence of the      *)
(*          characters, each a one-character string.                       *)
(*  null    Null.                                                          *)
(*  array   [type |-> "array", items] with items the sequence of elements. *)
(*  object  a SubnetAnalysis is a record of its ten fields, with           *)
(*          type |-> "SubnetAnalysis".                                     *)
(*  a thrown Error is the value Thrown(message); an operator that models   *)
(*  a function yields it when the function throws, and a caller without a  *)
(*  try/catch passes it on.                                                *)
(*  Bit counts (prefixSize, maskSize, loop indices) are small and are      *)
(*  plain integers.                                                        *)
(***************************************************************************)
EXTENDS Integers, Sequences, FiniteSets, TLC

VARIABLES op, args, result

vars == <<op, args, result>>

\* ------------------------------------------------------------------------
\* JavaScript numbers on two 16-bit limbs

Base == 2^16

Num(h, l) == [type |-> "number", hi |-> h, lo |-> l, fr |-> 0]

Frac(h, l) == [type |-> "number", hi |-> h, lo |-> l, fr |-> 1]

\* The number n, for an integer n the model checker can hold.
Small(n) == Num(n \div Base, n % Base)

\* The address a.b.c.d as a number.
Ip(a, b, c, d) == Num(a * 256 + b, c * 256 + d)

Str(cs) == [type |-> "string", chars |-> cs]

Null == [type |-> "null"]

\* the array with the given items
Arr(xs) == [type |-> "array", items |-> xs]

Thrown(msg) == [type |-> "error", message |-> msg]

IsThrown(v) == v.type = "error"

typeof(v) == v.type

\* A const declaration computes its value before the statements after it
\* run.  The statements are written { e : c \in {v} }, the set of the one
\* value that e has for the value v of the constant c, and TheValue takes
\* that value out of the set.
TheValue(S) == CHOOSE v \in S : TRUE

\* x + y on integral numbers
Add(x, y) ==
  LET s == x.lo + y.lo
  IN  Num(x.hi + y.hi + s \div Base, s % Base)

\* x - y on integral numbers
Sub(x, y) ==
  LET s == x.lo - y.lo
  IN  Num(x.hi - y.hi + s \div Base, s % Base)

\* x < y, x <= y, x === y on integral numbers
Lt(x, y) == x.hi < y.hi \/ (x.hi = y.hi /\ x.lo < y.lo)

Le(x, y) == x.hi < y.hi \/ (x.hi = y.hi /\ x.lo <= y.lo)

\* ToUint32: x >>> 0, the value modulo 2^32
ToUint32(x) == Num(x.hi % Base, x.lo)

\* ToInt32: the operand conversion of << and &, the value modulo 2^32 read
\* as a signed 32-bit integer
ToInt32(x) ==
  LET h == x.hi % Base
  IN  Num(IF h >= Base \div 2 THEN h - Base ELSE h, x.lo)

\* 1 << k: the shift count is taken modulo 32 and the result is a signed
\* 32-bit integer, so 1 << 31 is -2147483648
Shl1(k) ==
  LET c == k % 32
  IN  ToInt32(IF c < 16 THEN Num(0, 2^c) ELSE Num(2^(c - 16), 0))

\* bit i of a non-negative integer
Bit(a, i) == (a \div 2^i) % 2

\* bitwise and of two integers in 0..15: the integer whose bit i is set
\* exactly when bit i is set in both
AndNibble(a, b) ==
  CHOOSE r \in 0..15 : \A i \in 0..3 : Bit(r, i) = Bit(a, i) * Bit(b, i)

\* bitwise and of two limbs in 0..2^16-1, four bits at a time
AndLimb(a, b) ==
  AndNibble(a \div 4096, b \div 4096) * 4096
    + AndNibble((a \div 256) % 16, (b \div 256) % 16) * 256
    + AndNibble((a \div 16) % 16, (b \div 16) % 16) * 16
    + AndNibble(a % 16, b % 16)

\* x & y: both operands through ToInt32, the result a signed 32-bit integer
BitAnd(x, y) ==
  LET a == ToInt32(x)
      b == ToInt32(y)
  IN  ToInt32(Num(AndLimb(a.hi % Base, b.hi % Base), AndLimb(a.lo, b.lo)))

\* x % 256 for a non-negative integral x
Mod256(x) == x.lo % 256

\* Math.floor(x / 256) for a non-negative integral x
FloorDiv256(x) ==
  LET v == (x.hi % 256) * 256 + x.lo \div 256
  IN  Num((x.hi \div 256) + v \div Base, v % Base)

\* x * 256 + d
MulAdd256(x, d) ==
  LET v == x.lo * 256 + d
  IN  Num(x.hi * 256 + v \div Base, v % Base)

\* ------------------------------------------------------------------------
\* Mask builder

\* The loops of getPrefixMask and getMask add one term per iteration to a
\* mask that starts at 0.  Every partial sum is an integer below 2^53, so
\* the additions are exact and the order in which the terms are added does
\* not change the sum: the terms of the iterations from..to-1 are added
\* here half by half, which keeps the evaluation shallow.

\* the term of iteration i of getPrefixMask: (1 << (32 - (i + 1))) >>> 0
PrefixMaskTerm_Signed(i) == Shl1(32 - (i + 1))

PrefixMaskTerm(i) == ToUint32(Shl1(32 - (i + 1)))

RECURSIVE PrefixMaskLoop(_, _)
PrefixMaskLoop(from, to) ==
  IF to <= from THEN Num(0, 0)
  ELSE IF to = from + 1 THEN PrefixMaskTerm(from)
  ELSE Add(PrefixMaskLoop(from, (from + to) \div 2),
           PrefixMaskLoop((from + to) \div 2, to))

getPrefixMask(prefixSize) == PrefixMaskLoop(0, prefixSize)

\* the term of iteration i of getMask: (1 << i) >>> 0
MaskTerm(i) == ToUint32(Shl1(i))

RECURSIVE MaskLoop(_, _)
MaskLoop(from, to) ==
  IF to <= from THEN Num(0, 0)
  ELSE IF to = from + 1 THEN MaskTerm(from)
  ELSE Add(MaskLoop(from, (from + to) \div 2), MaskLoop((from + to) \div 2, to))

getMask(maskSize) == MaskLoop(0, maskSize)

\* ------------------------------------------------------------------------
\* Address codec

Digits == <<"0", "1", "2", "3", "4", "5", "6", "7", "8", "9">>

IsDigit(c) == \E i \in 1..10 : Digits[i] = c

DigitVal(c) == (CHOOSE i \in 1..10 : Digits[i] = c) - 1

\* String.prototype.split('.'): the pieces between the dots, in order; a
\* string with n dots has n + 1 pieces, some of them possibly empty
split(cs) ==
  LET dots == {i \in 1..Len(cs) : cs[i] = "."}
      n == Cardinality(dots)
      \* the position of the k-th dot; 0 and Len(cs) + 1 bound the string
      dot(k) == IF k = 0 THEN 0
                ELSE IF k = n + 1 THEN Len(cs) + 1
                ELSE CHOOSE i \in dots : Cardinality({j \in dots : j < i}) = k - 1
  IN  [k \in 1..(n + 1) |-> SubSeq(cs, dot(k - 1) + 1, dot(k) - 1)]

\* ip.match(/^([0-9]{1,3})\.([0-9]{1,3})\.([0-9]{1,3})\.([0-9]{1,3})$/):
\* the four captured groups, or Null when the string does not match
match(cs) ==
  LET g == split(cs)
  IN  IF /\ Len(g) = 4
         /\ \A k \in 1..4 : /\ Len(g[k]) \in 1..3
                            /\ \A j \in 1..Len(g[k]) : IsDigit(g[k][j])
      THEN g
      ELSE Null

\* parseInt(digits, 10) and unary + on a string of decimal digits
RECURSIVE parseInt(_)
parseInt(ds) ==
  IF Len(ds) = 0 THEN 0
  ELSE parseInt(SubSeq(ds, 1, Len(ds) - 1)) * 10 + DigitVal(ds[Len(ds)])

\* `${n}` for a non-negative integer n: its decimal digits, no leading zero
RECURSIVE NumberToString(_)
NumberToString(n) ==
  IF n < 10 THEN <<Digits[n + 1]>>
  ELSE Append(NumberToString(n \div 10), Digits[(n % 10) + 1])

isIp(ip) ==
  IF typeof(ip) # "string" THEN FALSE
  ELSE LET parts == match(ip.chars)
       IN  IF parts = Null THEN FALSE
           ELSE \A i \in 1..4 :
                  LET n == parseInt(parts[i]) IN ~(n > 255 \/ n < 0)

\* 4294967295
MaxIpNum == Num(Base - 1, Base - 1)

\* the test without ipNum % 1 === 0
isDecimalIp_NoIntegrality(ipNum) ==
  /\ typeof(ipNum) = "number"
  /\ ipNum.hi >= 0
  /\ Le(ipNum, MaxIpNum)

isDecimalIp(ipNum) ==
  /\ typeof(ipNum) = "number"
  /\ ipNum.fr = 0
  /\ ipNum.hi >= 0
  /\ Le(ipNum, MaxIpNum)

toDecimal(ipString) ==
  IF typeof(ipString) = "number" /\ isDecimalIp(ipString) THEN ipString
  ELSE IF typeof(ipString) # "string" \/ ~isIp(ipString)
       THEN Thrown("Not an IP address")
  ELSE LET d == split(ipString.chars)
       IN  MulAdd256(MulAdd256(MulAdd256(Small(parseInt(d[1])), parseInt(d[2])),
                               parseInt(d[3])),
                     parseInt(d[4]))

\* the loop of toString: i counts 3, 2, 1
RECURSIVE ToStringLoop(_, _, _)
\* the body of the loop, for the new value of curIp
ToStringBody(i, curIp, d) ==
  ToStringLoop(i - 1, curIp, NumberToString(Mod256(curIp)) \o <<".">> \o d)

\* the loop written with i > 1
ToStringLoop_TwoRounds(i, curIp, d) ==
  IF i > 1 THEN ToStringBody(i, FloorDiv256(curIp), d) ELSE d

ToStringLoop(i, curIp, d) ==
  IF i > 0 THEN ToStringBody(i, FloorDiv256(curIp), d) ELSE d

toString(ipNum) ==
  IF typeof(ipNum) = "string" /\ isIp(ipNum) THEN ipNum
  ELSE IF typeof(ipNum) # "number" \/ ~isDecimalIp(ipNum)
       THEN Thrown("Not a numeric IP address")
  ELSE Str(ToStringLoop(3, ipNum, NumberToString(Mod256(ipNum))))

\* ------------------------------------------------------------------------
\* Range analyzer

\* ipLow written without the mask: ipNum >>> 0
MaskRangeLow_NoMask(ipNum, prefixMask) == ToUint32(ipNum)

\* ipLow of getMaskRange: (ipNum & prefixMask) >>> 0
MaskRangeLow(ipNum, prefixMask) == ToUint32(BitAnd(ipNum, prefixMask))

\* ipHigh computed from ipNum in place of ipNum & prefixMask
MaskRangeHigh_FromIp(ipNum, prefixMask, lowMask) == ToUint32(Add(ipNum, lowMask))

\* ipHigh of getMaskRange: (((ipNum & prefixMask) >>> 0) + lowMask) >>> 0
MaskRangeHigh(ipNum, prefixMask, lowMask) ==
  ToUint32(Add(ToUint32(BitAnd(ipNum, prefixMask)), lowMask))

\* the object literal that getMaskRange returns, its properties in the
\* order in which they are evaluated
MaskRangeObject(ipLow, ipHigh, prefixMask, prefixSize, lowMask) ==
  [type |-> "SubnetAnalysis",
   ipLow |-> ipLow,
   ipLowStr |-> toString(ipLow),
   ipHigh |-> ipHigh,
   ipHighStr |-> toString(ipHigh),
   prefixMask |-> prefixMask,
   prefixMaskStr |-> toString(prefixMask),
   prefixSize |-> prefixSize,
   invertedMask |-> lowMask,
   invertedMaskStr |-> toString(lowMask),
   invertedMaskSize |-> 32 - prefixSize]

\* A throw of toString is not caught in getMaskRange: the first toString
\* that throws, in the order of the object literal, ends the call.
MaskRangeOrThrown(object) ==
  IF IsThrown(object.ipLowStr) THEN object.ipLowStr
  ELSE IF IsThrown(object.ipHighStr) THEN object.ipHighStr
  ELSE IF IsThrown(object.prefixMaskStr) THEN object.prefixMaskStr
  ELSE IF IsThrown(object.invertedMaskStr) THEN object.invertedMaskStr
  ELSE object

\* the four constants of getMaskRange are computed one after the other,
\* each before the statements that use it
getMaskRange(ipNum, prefixSize) ==
  TheValue({ TheValue({ MaskRangeOrThrown(MaskRangeObject(ipLow, ipHigh, prefixMask,
                                                          prefixSize, lowMask)) :
                          ipLow \in {MaskRangeLow(ipNum, prefixMask)},
                          ipHigh \in {MaskRangeHigh(ipNum, prefixMask, lowMask)} }) :
             prefixMask \in {getPrefixMask(prefixSize)},
             lowMask \in {getMask(32 - prefixSize)} })

\* the test of the loop without its comparison against the end of the range
RangeFits_NoEnd(maskRange, ipNum, ipEndNum) ==
  /\ ~IsThrown(maskRange)
  /\ maskRange.ipLow = ipNum

\* the test of the loop without its comparison of ipLow
RangeFits_NoLow(maskRange, ipNum, ipEndNum) ==
  /\ ~IsThrown(maskRange)
  /\ Le(maskRange.ipHigh, ipEndNum)

\* the test of the loop of getOptimalRange on the maskRange of one iteration
RangeFits(maskRange, ipNum, ipEndNum) ==
  /\ ~IsThrown(maskRange)
  /\ maskRange.ipLow = ipNum
  /\ Le(maskRange.ipHigh, ipEndNum)

\* the iteration at which the loop of getOptimalRange ends, given the
\* prefix sizes whose maskRange does not pass the test: the largest of
\* them, since prefixSize runs through 32, 31, ..., 0; -1 when the loop runs
\* to its end
LoopExit(stops) ==
  IF stops = {} THEN 0 - 1
  ELSE CHOOSE p \in stops : \A q \in stops : q <= p

\* the loop written with prefixSize > 0: it never tries prefixSize 0
FailingSizes_SkipZero(maskRanges, ipNum, ipEndNum) ==
  {0} \cup {p \in 1..32 : ~RangeFits(maskRanges[p], ipNum, ipEndNum)}

\* the prefix sizes whose maskRange does not pass the test of the loop
FailingSizes(maskRanges, ipNum, ipEndNum) ==
  {p \in 0..32 : ~RangeFits(maskRanges[p], ipNum, ipEndNum)}

\* optimalRange when the loop ends at iteration last: the maskRange of the
\* iteration before, null when there was none; a throw of getMaskRange in
\* the last iteration ends the call
OptimalRangeAt(maskRanges, last) ==
  IF last >= 0 /\ IsThrown(maskRanges[last]) THEN maskRanges[last]
  ELSE IF last = 32 THEN Null
  ELSE maskRanges[last + 1]

\* getOptimalRange for the maskRange of every prefixSize.  getMaskRange has
\* no effect besides its value, so the maskRanges of the iterations that the
\* loop does not reach can be computed as well.
OptimalRangeOf(maskRanges, ipNum, ipEndNum) ==
  OptimalRangeAt(maskRanges, LoopExit(FailingSizes(maskRanges, ipNum, ipEndNum)))

getOptimalRange(ipNum, ipEndNum) ==
  OptimalRangeOf([p \in 0..32 |-> getMaskRange(ipNum, p)], ipNum, ipEndNum)

\* the while loop of calculate; it ends when the cursor has passed ipEndNum,
\* at the return of null, or when getOptimalRange throws
RECURSIVE CalculateLoop(_, _, _)
\* the body of the loop, for the optimalRange of the iteration
CalculateBody(optimalRange, ipEndNum, rangeCollection) ==
  IF optimalRange.type # "SubnetAnalysis" THEN optimalRange
  ELSE CalculateLoop(Add(optimalRange.ipHigh, Num(0, 1)), ipEndNum,
                     Append(rangeCollection, optimalRange))

CalculateLoop(ipCurNum, ipEndNum, rangeCollection) ==
  IF Le(ipCurNum, ipEndNum)
  THEN CalculateBody(getOptimalRange(ipCurNum, ipEndNum), ipEndNum, rangeCollection)
  ELSE Arr(rangeCollection)

\* the comparison of the two ends written with <= in place of <
CalculateFrom_EndNotAbove(ipStartNum, ipEndNum) ==
  IF IsThrown(ipStartNum) \/ IsThrown(ipEndNum) THEN Null
  ELSE IF Le(ipEndNum, ipStartNum) THEN Null
  ELSE CalculateLoop(ipStartNum, ipEndNum, <<>>)

\* calculate after the two calls of toDecimal: the catch, the comparison of
\* the two ends and the loop
CalculateFrom(ipStartNum, ipEndNum) ==
  IF IsThrown(ipStartNum) \/ IsThrown(ipEndNum) THEN Null
  ELSE IF Lt(ipEndNum, ipStartNum) THEN Null
  ELSE CalculateLoop(ipStartNum, ipEndNum, <<>>)

calculate(ipStart, ipEnd) == CalculateFrom(toDecimal(ipStart), toDecimal(ipEnd))

\* calculateSubnetMask after the call of toDecimal
SubnetMaskFrom(ipNum, prefixSize) ==
  IF IsThrown(ipNum) THEN Null
  ELSE getMaskRange(ipNum, prefixSize)

calculateSubnetMask(ip, prefixSize) == SubnetMaskFrom(toDecimal(ip), prefixSize)

\* ------------------------------------------------------------------------
\* Prefix deriver

\* newPrefix of one iteration: (prefix + (1 << (32 - (prefixSize + 1)))) >>> 0
NewPrefix(prefix, prefixSize) == ToUint32(Add(prefix, Shl1(32 - (prefixSize + 1))))

\* the test written without >>> 0
NotInMask_Signed(subnetMaskNum, newPrefix) ==
  BitAnd(subnetMaskNum, newPrefix) # newPrefix

\* the test before the break: (subnetMaskNum & newPrefix) >>> 0 !== newPrefix
NotInMask(subnetMaskNum, newPrefix) ==
  ToUint32(BitAnd(subnetMaskNum, newPrefix)) # newPrefix

\* the for loop of calculateCIDRPrefix; its value is prefixSize at the exit
RECURSIVE CIDRPrefixLoop(_, _, _)
CIDRPrefixLoop(prefixSize, prefix, subnetMaskNum) ==
  IF prefixSize < 32 /\ ~NotInMask(subnetMaskNum, NewPrefix(prefix, prefixSize))
  THEN CIDRPrefixLoop(prefixSize + 1, NewPrefix(prefix, prefixSize), subnetMaskNum)
  ELSE prefixSize

\* calculateCIDRPrefix after the two calls of toDecimal
CIDRPrefixFrom(ipNum, subnetMaskNum) ==
  IF IsThrown(ipNum) \/ IsThrown(subnetMaskNum) THEN Null
  ELSE TheValue({ getMaskRange(ipNum, prefixSize) :
                    prefixSize \in {CIDRPrefixLoop(0, Num(0, 0), subnetMaskNum)} })

calculateCIDRPrefix(ip, subnetMask) ==
  CIDRPrefixFrom(toDecimal(ip), toDecimal(subnetMask))

\* ------------------------------------------------------------------------
\* Inputs of the calls

\* the largest end - start of the ranges that calculate is called with,
\* besides the ranges listed by name
MaxSpan == 9

\* prefix sizes run from -PrefixSlack to 32 + PrefixSlack
PrefixSlack == 2

\* a.b.c.d as a string, from the digits of the four groups
Dotted(g1, g2, g3, g4) == Str(g1 \o <<".">> \o g2 \o <<".">> \o g3 \o <<".">> \o g4)

\* addresses the ranges start from: both ends of the address space, the
\* sign bit of a 32-bit integer, limb and octet boundaries
RangeStarts ==
  { Ip(0, 0, 0, 0), Ip(0, 0, 0, 1), Ip(10, 0, 1, 255), Ip(2, 3, 4, 5),
    Ip(0, 0, 255, 250), Ip(0, 255, 255, 252), Ip(127, 255, 255, 251),
    Ip(128, 0, 0, 0), Ip(192, 168, 0, 248), Ip(255, 255, 255, 246),
    Ip(255, 255, 255, 249), Ip(255, 255, 255, 255) }

\* the ranges start..start+d that stay within the address space
SpanRanges ==
  { r \in { <<a, Add(a, Small(d))>> : a \in RangeStarts, d \in 0..MaxSpan } :
      Le(r[2], MaxIpNum) }

\* wide ranges, among them the example of the documentation
NamedRanges ==
  { <<Ip(10, 0, 1, 255), Ip(10, 0, 3, 255)>>,
    <<Ip(0, 0, 0, 0), Ip(255, 255, 255, 255)>>,
    <<Ip(128, 0, 0, 0), Ip(255, 255, 255, 255)>>,
    <<Ip(0, 0, 0, 0), Ip(127, 255, 255, 255)>>,
    <<Ip(127, 255, 255, 255), Ip(128, 0, 0, 0)>>,
    <<Ip(123, 123, 123, 0), Ip(123, 123, 123, 255)>>,
    <<Ip(255, 255, 0, 0), Ip(255, 255, 255, 255)>>,
    <<Ip(0, 0, 255, 255), Ip(0, 1, 1, 0)>> }

ValidRanges == SpanRanges \cup NamedRanges

\* numbers that are not addresses: -1, 4294967296, 1.5, -0.5, 4294967295.5,
\* 6442450943
InvalidNumbers ==
  { Num(-1, Base - 1), Num(Base, 0), Frac(0, 1), Frac(-1, Base - 1),
    Frac(Base - 1, Base - 1), Num(Base + Base \div 2 - 1, Base - 1) }

\* groups of an address string: in range with and without leading zeros,
\* out of range, and not matched by the pattern
GoodGroups ==
  { <<"0">>, <<"1">>, <<"9">>, <<"1", "0">>, <<"9", "9">>, <<"1", "0", "0">>,
    <<"1", "2", "3">>, <<"1", "9", "9">>, <<"2", "0", "0">>, <<"2", "5", "5">> }

ZeroLedGroups == { <<"0", "0">>, <<"0", "1">>, <<"0", "0", "7">>, <<"0", "1", "0">> }

BadGroups ==
  { <<"2", "5", "6">>, <<"9", "9", "9">>, <<>>, <<"1", "0", "0", "0">>,
    <<"1", "a">>, <<"-", "1">>, <<" ", "1">> }

OuterGroups == GoodGroups \cup ZeroLedGroups \cup BadGroups

InnerGroups == { <<"0">>, <<"2", "5", "5">>, <<"0", "7">>, <<"3">> }

\* strings of four groups
DottedStrings ==
  { Dotted(g1, g2, g3, g4) : g1 \in OuterGroups, g2 \in InnerGroups,
                            g3 \in {<<"0">>, <<"1", "2", "3">>}, g4 \in OuterGroups }

\* other strings: "", "1.2.3", "1.2.3.4.5", "1.2.3.4.", "16909060", "256.1.1.1"
OtherStrings ==
  { Str(<<>>), Str(<<"1", ".", "2", ".", "3">>),
    Str(<<"1", ".", "2", ".", "3", ".", "4", ".", "5">>),
    Str(<<"1", ".", "2", ".", "3", ".", "4", ".">>),
    Str(<<"1", "6", "9", "0", "9", "0", "6", "0">>),
    Dotted(<<"2", "5", "6">>, <<"1">>, <<"1">>, <<"1">>) }

Strings == DottedStrings \cup OtherStrings

\* octets of the numbers handed to the codec
Octets == {0, 1, 9, 10, 99, 100, 127, 128, 200, 255}

CodecNumbers ==
  { Ip(a, b, c, d) : a \in Octets, b \in {0, 7, 255}, c \in {0, 123}, d \in Octets }

\* values of neither type
OtherValues == { Null }

\* every value handed to toDecimal, toString, isIp and isDecimalIp
CodecInputs ==
  CodecNumbers \cup InvalidNumbers \cup Strings \cup OtherValues

\* addresses handed to the entry points: numbers, strings, and values that
\* are not addresses
Addresses ==
  { Ip(0, 0, 0, 0), Ip(2, 3, 4, 5), Ip(10, 0, 1, 255), Ip(123, 123, 123, 1),
    Ip(127, 255, 255, 255), Ip(128, 0, 0, 1), Ip(200, 100, 50, 25),
    Ip(255, 255, 255, 255) }

AddressInputs ==
  Addresses \cup { toString(a) : a \in Addresses }
    \cup { Dotted(<<"0", "1">>, <<"0", "0", "2">>, <<"3">>, <<"0", "4">>) }

NotAddresses ==
  InvalidNumbers
    \cup { Dotted(<<"2", "5", "6">>, <<"1">>, <<"1">>, <<"1">>), Str(<<>>), Null }

\* subnet masks: contiguous ones and masks with a 0 bit above a 1 bit
Masks ==
  { getPrefixMask(n) : n \in 0..32 }
    \cup { Ip(255, 0, 255, 0), Ip(255, 255, 255, 1), Ip(127, 255, 255, 255),
           Ip(0, 0, 0, 1), Ip(254, 255, 0, 0), Ip(255, 255, 128, 1),
           Ip(191, 255, 255, 255), Ip(255, 255, 255, 253) }

MaskInputs ==
  Masks \cup { toString(m) : m \in {Ip(255, 255, 255, 0), Ip(255, 0, 255, 0)} }

\* addresses handed to calculateCIDRPrefix
MaskedAddresses ==
  { Ip(123, 123, 123, 1), Ip(200, 100, 50, 25), Ip(255, 255, 255, 255),
    toString(Ip(123, 123, 123, 1)) }

PrefixSizes == (0 - PrefixSlack)..(32 + PrefixSlack)

\* arguments of calculate: ranges as numbers, as strings and mixed,
\* reversed ranges, and values that are not addresses
CalculateInputs ==
  ValidRanges
    \cup { <<toString(r[1]), toString(r[2])>> : r \in NamedRanges }
    \cup { <<toString(r[1]), r[2]>> : r \in NamedRanges }
    \cup { <<r[2], r[1]>> : r \in ValidRanges }
    \cup { <<a, b>> : a \in NotAddresses, b \in {Ip(2, 3, 4, 5)} \cup NotAddresses }
    \cup { <<a, b>> : a \in {Ip(2, 3, 4, 5)}, b \in NotAddresses }

\* ------------------------------------------------------------------------
\* The calls.  The library keeps no state between calls: op, args and result
\* record the call that has just returned (or thrown), and Return hands the
\* result to the caller, after which any call can be made.

Init == op = "idle" /\ args = <<>> /\ result = Null

CallCalculate ==
  /\ op = "idle"
  /\ \E r \in CalculateInputs :
       /\ op' = "calculate"
       /\ args' = r
       /\ result' = calculate(r[1], r[2])

CallCalculateSubnetMask ==
  /\ op = "idle"
  /\ \E ip \in AddressInputs \cup NotAddresses, prefixSize \in PrefixSizes :
       /\ op' = "calculateSubnetMask"
       /\ args' = <<ip, prefixSize>>
       /\ result' = calculateSubnetMask(ip, prefixSize)

CallCalculateCIDRPrefix ==
  /\ op = "idle"
  /\ \E ip \in MaskedAddresses \cup NotAddresses, subnetMask \in MaskInputs \cup NotAddresses :
       /\ op' = "calculateCIDRPrefix"
       /\ args' = <<ip, subnetMask>>
       /\ result' = calculateCIDRPrefix(ip, subnetMask)

CallGetOptimalRange ==
  /\ op = "idle"
  /\ \E r \in ValidRanges :
       /\ op' = "getOptimalRange"
       /\ args' = r
       /\ result' = getOptimalRange(r[1], r[2])

CallGetMaskRange ==
  /\ op = "idle"
  /\ \E ipNum \in Addresses, prefixSize \in 0..32 :
       /\ op' = "getMaskRange"
       /\ args' = <<ipNum, prefixSize>>
       /\ result' = getMaskRange(ipNum, prefixSize)

CallGetPrefixMask ==
  /\ op = "idle"
  /\ \E prefixSize \in 0..32 :
       /\ op' = "getPrefixMask"
       /\ args' = <<prefixSize>>
       /\ result' = getPrefixMask(prefixSize)

CallGetMask ==
  /\ op = "idle"
  /\ \E maskSize \in 0..32 :
       /\ op' = "getMask"
       /\ args' = <<maskSize>>
       /\ result' = getMask(maskSize)

CallToDecimal ==
  /\ op = "idle"
  /\ \E v \in CodecInputs :
       /\ op' = "toDecimal"
       /\ args' = <<v>>
       /\ result' = toDecimal(v)

CallToString ==
  /\ op = "idle"
  /\ \E v \in CodecInputs :
       /\ op' = "toString"
       /\ args' = <<v>>
       /\ result' = toString(v)

Return ==
  /\ op # "idle"
  /\ op' = "idle"
  /\ args' = <<>>
  /\ result' = Null

Next ==
  \/ CallCalculate
  \/ CallCalculateSubnetMask
  \/ CallCalculateCIDRPrefix
  \/ CallGetOptimalRange
  \/ CallGetMaskRange
  \/ CallGetPrefixMask
  \/ CallGetMask
  \/ CallToDecimal
  \/ CallToString
  \/ Return

Spec == Init /\ [][Next]_vars

\* ------------------------------------------------------------------------
\* calculate, one iteration of its while loop at a time.  While the loop
\* runs op is "calculate.while" and result holds the variables of the call.

\* the variables of calculate at the test of the while loop
Frame(ipEndNum, ipCurNum, rangeCollection) ==
  [type |-> "frame", ipEndNum |-> ipEndNum, ipCurNum |-> ipCurNum,
   rangeCollection |-> rangeCollection]

\* where the call is after a step: in the loop, or returned with a result
Outcome(at, value) == [op |-> at, result |-> value]

\* the cursor written with >>> 0, which wraps 4294967296 to 0
NextCursor_Wrapped(optimalRange) == ToUint32(Add(optimalRange.ipHigh, Num(0, 1)))

\* ipCurNum = optimalRange.ipHigh + 1
NextCursor(optimalRange) == Add(optimalRange.ipHigh, Num(0, 1))

\* calculate from the catch to the first test of the loop
CalculateEnter(ipStartNum, ipEndNum) ==
  IF IsThrown(ipStartNum) \/ IsThrown(ipEndNum) THEN Outcome("calculate", Null)
  ELSE IF Lt(ipEndNum, ipStartNum) THEN Outcome("calculate", Null)
  ELSE Outcome("calculate.while", Frame(ipEndNum, ipStartNum, <<>>))

\* the body of the while loop, for the optimalRange of the iteration; a
\* throw of getOptimalRange ends the call as the return of null does
WhileBody(optimalRange, frame) ==
  IF optimalRange.type # "SubnetAnalysis" THEN Outcome("calculate", optimalRange)
  ELSE Outcome("calculate.while",
               Frame(frame.ipEndNum, NextCursor(optimalRange),
                     Append(frame.rangeCollection, optimalRange)))

\* the test of the while loop, then its body or the return after it
WhileTest(frame) ==
  IF Le(frame.ipCurNum, frame.ipEndNum)
  THEN WhileBody(getOptimalRange(frame.ipCurNum, frame.ipEndNum), frame)
  ELSE Outcome("calculate", Arr(frame.rangeCollection))

EnterCalculate ==
  /\ op = "idle"
  /\ \E r \in CalculateInputs :
       /\ args' = r
       /\ \E next \in {CalculateEnter(toDecimal(r[1]), toDecimal(r[2]))} :
            /\ op' = next.op
            /\ result' = next.result

While ==
  /\ op = "calculate.while"
  /\ args' = args
  /\ \E next \in {WhileTest(result)} :
       /\ op' = next.op
       /\ result' = next.result

ReturnCalculate ==
  /\ op = "calculate"
  /\ op' = "idle"
  /\ args' = <<>>
  /\ result' = Null

LoopNext ==
  \/ EnterCalculate
  \/ While
  \/ ReturnCalculate

LoopSpec == Init /\ [][LoopNext]_vars

\* ------------------------------------------------------------------------
\* Vocabulary of the properties

\* v is an address: a string that isIp accepts or a number that isDecimalIp
\* accepts
IsAddress(v) == isIp(v) \/ isDecimalIp(v)

\* the call that has just returned is op, made with addresses
CalledWithAddresses(name) ==
  op = name /\ IsAddress(args[1]) /\ IsAddress(args[2])

\* the call that has just returned is calculate, on a range start <= end
CalculatedRange ==
  /\ CalledWithAddresses("calculate")
  /\ Le(toDecimal(args[1]), toDecimal(args[2]))

\* 2^k as a number, for k in 0..32
Pow2(k) == IF k < 16 THEN Num(0, 2^k) ELSE Num(2^(k - 16), 0)

\* bit i (0 the least significant) of a number in 0..2^32-1
BitOf(x, i) == IF i < 16 THEN (x.lo \div 2^i) % 2 ELSE (x.hi \div 2^(i - 16)) % 2

\* x is an unsigned 32-bit integer
IsUint32(x) ==
  /\ x.type = "number" /\ x.fr = 0
  /\ x.hi \in 0..(Base - 1) /\ x.lo \in 0..(Base - 1)

\* low is a multiple of 2^k
Aligned(low, k) ==
  IF k <= 16 THEN low.lo % 2^k = 0 ELSE low.lo = 0 /\ low.hi % 2^(k - 16) = 0

\* the last address of the block of 2^k addresses that starts at low
BlockHigh(low, k) == Sub(Add(low, Pow2(k)), Num(0, 1))

\* s..e is the union of at most n CIDR blocks that do not overlap: the
\* block that holds s starts at s, and the rest covers what follows it
RECURSIVE ExistsCover(_, _, _)
ExistsCover(s, e, n) ==
  /\ n > 0
  /\ \E k \in 0..32 :
       /\ Aligned(s, k)
       /\ Le(BlockHigh(s, k), e)
       /\ \/ BlockHigh(s, k) = e
          \/ ExistsCover(Add(BlockHigh(s, k), Num(0, 1)), e, n - 1)

\* ------------------------------------------------------------------------
\* C1

\* C1: for valid addresses start <= end the array returned by calculate
\* partitions start..end: the first block starts at start, the last ends at
\* end, each later block starts right after the one before it, and the
\* blocks are in strictly ascending order of ipLow.
C1_Partition ==
  CalculatedRange =>
    /\ result.type = "array"
    /\ Len(result.items) >= 1
    /\ result.items[1].ipLow = toDecimal(args[1])
    /\ result.items[Len(result.items)].ipHigh = toDecimal(args[2])
    /\ \A k \in 2..Len(result.items) :
         /\ result.items[k].ipLow = Add(result.items[k - 1].ipHigh, Num(0, 1))
         /\ Lt(result.items[k - 1].ipLow, result.items[k].ipLow)
    /\ \A k \in 1..Len(result.items) :
         Le(result.items[k].ipLow, result.items[k].ipHigh)

\* calculate has returned three or more blocks for a range that ends at the
\* last address of the address space
C1_Witness ==
  /\ CalculatedRange
  /\ result.type = "array"
  /\ Len(result.items) >= 3
  /\ toDecimal(args[2]) = MaxIpNum

\* ------------------------------------------------------------------------
\* C2

\* the blocks of the array, as pairs of ipLowStr and prefixSize
BlockList(array) ==
  [k \in 1..Len(array.items) |->
     <<array.items[k].ipLowStr, array.items[k].prefixSize>>]

\* the range of the example, 10.0.1.255 - 10.0.3.255
IsExampleRange ==
  /\ toDecimal(args[1]) = Ip(10, 0, 1, 255)
  /\ toDecimal(args[2]) = Ip(10, 0, 3, 255)

\* no set of fewer CIDR blocks than calculate has returned covers the range
\* exactly without overlap
NoSmallerCover ==
  /\ result.type = "array"
  /\ ~ExistsCover(toDecimal(args[1]), toDecimal(args[2]), Len(result.items) - 1)

\* What the code does for C2: for valid addresses start <= end the array
\* returned by calculate is minimal: no set of fewer CIDR blocks covers
\* start..end exactly without overlap; and 10.0.1.255 - 10.0.3.255 yields
\* the two blocks 10.0.1.255/32 and 10.0.2.0/23.
C2_Minimal ==
  CalculatedRange =>
    /\ NoSmallerCover
    /\ IsExampleRange =>
         BlockList(result) =
           << <<toString(Ip(10, 0, 1, 255)), 32>>,
              <<toString(Ip(10, 0, 2, 0)), 23>> >>

\* calculate has returned the two blocks of the example
C2_Witness ==
  /\ CalculatedRange
  /\ IsExampleRange
  /\ result.type = "array"
  /\ Len(result.items) = 2

\* C2: for valid addresses start <= end the array returned by calculate is
\* minimal, and 10.0.1.255 - 10.0.3.255 yields the three blocks
\* 10.0.1.255/32, 10.0.2.0/24 and 10.0.3.0/24, as the header comment of the
\* source says it should.  The code returns two blocks for that range.
C2_ThreeBlockExample ==
  CalculatedRange =>
    /\ NoSmallerCover
    /\ IsExampleRange =>
         BlockList(result) =
           << <<toString(Ip(10, 0, 1, 255)), 32>>,
              <<toString(Ip(10, 0, 2, 0)), 24>>,
              <<toString(Ip(10, 0, 3, 0)), 24>> >>

\* ------------------------------------------------------------------------
\* C3

\* C3: calculate, calculateSubnetMask and calculateCIDRPrefix either return
\* a complete result or return null; no error escapes the call.
C3_NoErrorEscapes ==
  op \in {"calculate", "calculateSubnetMask", "calculateCIDRPrefix"} =>
    ~IsThrown(result)

\* ------------------------------------------------------------------------
\* C4

\* calculate has been called with an argument that is not an address or
\* with an end below the start
BadRange ==
  \/ ~IsAddress(args[1])
  \/ ~IsAddress(args[2])
  \/ Lt(toDecimal(args[2]), toDecimal(args[1]))

\* C4: calculate returns null if and only if start is not an address, or
\* end is not an address, or end is below start; in every other case it
\* returns an array of at least one block, a single /32 block when start
\* equals end.
C4_NullIffBadRange ==
  op = "calculate" =>
    /\ result = Null <=> BadRange
    /\ ~BadRange =>
         /\ result.type = "array"
         /\ Len(result.items) >= 1
         /\ toDecimal(args[1]) = toDecimal(args[2]) =>
              /\ Len(result.items) = 1
              /\ result.items[1].prefixSize = 32

\* calculate has returned null for two addresses, the end below the start
C4_Witness ==
  /\ CalledWithAddresses("calculate")
  /\ Lt(toDecimal(args[2]), toDecimal(args[1]))
  /\ result = Null

\* ------------------------------------------------------------------------
\* C5

\* the value of the digits cs[from], ..., cs[from + len - 1]
GroupValue(cs, from, len) ==
  IF len = 1 THEN DigitVal(cs[from])
  ELSE IF len = 2 THEN DigitVal(cs[from]) * 10 + DigitVal(cs[from + 1])
  ELSE DigitVal(cs[from]) * 100 + DigitVal(cs[from + 1]) * 10 + DigitVal(cs[from + 2])

\* cs[from], ..., cs[from + len - 1] are digits of a value in 0..255
IsGroup(cs, from, len) ==
  /\ \A j \in from..(from + len - 1) : IsDigit(cs[j])
  /\ GroupValue(cs, from, len) <= 255

\* the group has no leading zero: it is "0" or does not start with "0"
IsPlainGroup(cs, from, len) == len = 1 \/ cs[from] # "0"

\* the lengths of the four groups of a string that is an address in dotted
\* form; the set is empty when the string is none
GroupLengths(v) ==
  IF v.type # "string" THEN {}
  ELSE { l \in (1..3) \X (1..3) \X (1..3) \X (1..3) :
           /\ Len(v.chars) = l[1] + l[2] + l[3] + l[4] + 3
           /\ v.chars[l[1] + 1] = "."
           /\ v.chars[l[1] + l[2] + 2] = "."
           /\ v.chars[l[1] + l[2] + l[3] + 3] = "."
           /\ IsGroup(v.chars, 1, l[1])
           /\ IsGroup(v.chars, l[1] + 2, l[2])
           /\ IsGroup(v.chars, l[1] + l[2] + 3, l[3])
           /\ IsGroup(v.chars, l[1] + l[2] + l[3] + 4, l[4]) }

\* v is a valid address string: four groups of 1 to 3 digits, each 0..255
ValidString(v) == GroupLengths(v) # {}

\* v is a valid address string none of whose groups has a leading zero
PlainString(v) ==
  \E l \in GroupLengths(v) :
    /\ IsPlainGroup(v.chars, 1, l[1])
    /\ IsPlainGroup(v.chars, l[1] + 2, l[2])
    /\ IsPlainGroup(v.chars, l[1] + l[2] + 3, l[3])
    /\ IsPlainGroup(v.chars, l[1] + l[2] + l[3] + 4, l[4])

\* v is a valid integer address: an integer in 0..4294967295
ValidInteger(v) == IsUint32(v)

\* C5 as amended: toDecimal(toString(n)) = n for every valid integer
\* address n; toString(toDecimal(s)) = s for every valid address string s
\* whose groups have no leading zeros; for a valid s with a leading zero in
\* some group, toString(toDecimal(s)) differs from s and is the string
\* without leading zeros of the same address.
C5_RoundTrip ==
  /\ (op = "toString" /\ ValidInteger(args[1])) =>
       /\ PlainString(result)
       /\ toDecimal(result) = args[1]
  /\ (op = "toDecimal" /\ ValidString(args[1])) =>
       /\ ValidInteger(result)
       /\ PlainString(toString(result))
       /\ toDecimal(toString(result)) = result
       /\ PlainString(args[1]) <=> toString(result) = args[1]

\* toDecimal has returned an integer above 2^31 for a string without
\* leading zeros, and toString takes the integer back to the string
C5_Witness ==
  /\ op = "toDecimal"
  /\ PlainString(args[1])
  /\ result.hi >= Base \div 2
  /\ toString(result) = args[1]

\* C5 as stated: the codec round-trips in both directions, for every valid
\* integer address and for every string that isIp accepts, leading zeros
\* allowed.
C5_RoundTripAnyString ==
  /\ (op = "toString" /\ ValidInteger(args[1])) => toDecimal(result) = args[1]
  /\ (op = "toDecimal" /\ ValidString(args[1])) => toString(result) = args[1]

\* ------------------------------------------------------------------------
\* C6

\* the descriptors that the call has returned
Descriptors ==
  IF result.type = "SubnetAnalysis" THEN {result}
  ELSE IF result.type = "array" THEN {result.items[k] : k \in 1..Len(result.items)}
  ELSE {}

\* the invariants of one descriptor, bit by bit
DescriptorInvariant(r) ==
  /\ IsUint32(r.ipLow) /\ IsUint32(r.ipHigh)
  /\ IsUint32(r.prefixMask) /\ IsUint32(r.invertedMask)
  /\ \A i \in 0..31 :
       \* ipHigh = ipLow | invertedMask
       /\ BitOf(r.ipHigh, i) = 1 <=> (BitOf(r.ipLow, i) = 1 \/ BitOf(r.invertedMask, i) = 1)
       \* ipLow = ipLow & prefixMask
       /\ BitOf(r.ipLow, i) = 1 => BitOf(r.prefixMask, i) = 1
       \* prefixMask & invertedMask = 0, prefixMask | invertedMask = 0xFFFFFFFF
       /\ BitOf(r.prefixMask, i) + BitOf(r.invertedMask, i) = 1
  /\ r.invertedMaskSize = 32 - r.prefixSize

\* C6: getMaskRange(a, p) for a valid address a and p in 0..32 produces a
\* descriptor, and every descriptor that getMaskRange, calculate,
\* calculateSubnetMask or calculateCIDRPrefix returns satisfies
\* ipHigh = ipLow | invertedMask, ipLow = ipLow & prefixMask,
\* prefixMask & invertedMask = 0, prefixMask | invertedMask = 0xFFFFFFFF and
\* invertedMaskSize = 32 - prefixSize, the four integers in 0..4294967295.
C6_DescriptorInvariants ==
  /\ op = "getMaskRange" => result.type = "SubnetAnalysis"
  /\ \A r \in Descriptors : DescriptorInvariant(r)

\* getMaskRange has returned the descriptor of an address above 2^31 that
\* is not the first of its block, for a prefix size strictly between 0 and 32
C6_Witness ==
  /\ op = "getMaskRange"
  /\ result.type = "SubnetAnalysis"
  /\ args[1].hi >= Base \div 2
  /\ args[2] \in 1..31
  /\ result.ipLow # args[1]

\* ------------------------------------------------------------------------
\* C7

\* the number of consecutive 1 bits of m from bit 31 down to the first 0 bit
LeadingOnes(m) ==
  CHOOSE k \in 0..32 :
    /\ \A i \in 1..k : BitOf(m, 32 - i) = 1
    /\ k = 32 \/ BitOf(m, 31 - k) = 0

\* C7: for a valid address ip and a valid 32-bit mask m, contiguous or not,
\* calculateCIDRPrefix(ip, m) returns getMaskRange(ip, k), k the number of
\* consecutive 1 bits of m from the most significant bit down to the first 0
\* bit; "123.123.123.1" with "255.255.255.0" gives prefixSize 24,
\* 123.123.123.0 and 123.123.123.255.
C7_LeadingOnes ==
  CalledWithAddresses("calculateCIDRPrefix") =>
    /\ result.type = "SubnetAnalysis"
    /\ result.prefixSize = LeadingOnes(toDecimal(args[2]))
    /\ result = getMaskRange(toDecimal(args[1]), LeadingOnes(toDecimal(args[2])))
    /\ (args[1] = toString(Ip(123, 123, 123, 1)) /\ args[2] = toString(Ip(255, 255, 255, 0))) =>
         /\ result.prefixSize = 24
         /\ result.ipLowStr = toString(Ip(123, 123, 123, 0))
         /\ result.ipHighStr = toString(Ip(123, 123, 123, 255))

\* calculateCIDRPrefix has returned for a mask that has 1 bits below its
\* first 0 bit and starts with at least one 1 bit
C7_Witness ==
  /\ CalledWithAddresses("calculateCIDRPrefix")
  /\ result.type = "SubnetAnalysis"
  /\ result.prefixSize \in 1..31
  /\ toDecimal(args[2]) # result.prefixMask

\* ------------------------------------------------------------------------
\* C8

\* C8: toDecimal(v) and toString(v) raise an error exactly when v is neither
\* a valid address string nor a valid integer address; otherwise toDecimal
\* returns a valid integer, v itself when v is one, and toString returns a
\* valid string, v itself when v is one.
C8_RaisesOnInvalid ==
  op \in {"toDecimal", "toString"} =>
    /\ IsThrown(result) <=> ~(ValidString(args[1]) \/ ValidInteger(args[1]))
    /\ (op = "toDecimal" /\ ~IsThrown(result)) => ValidInteger(result)
    /\ (op = "toDecimal" /\ ValidInteger(args[1])) => result = args[1]
    /\ (op = "toString" /\ ~IsThrown(result)) => ValidString(result)
    /\ (op = "toString" /\ ValidString(args[1])) => result = args[1]

\* toString has raised for 1.5
C8_Witness ==
  /\ op = "toString"
  /\ args[1] = Frac(0, 1)
  /\ IsThrown(result)

\* ------------------------------------------------------------------------
\* C9

\* C9: for n in 0..32, getPrefixMask(n) = 2^32 - 2^(32-n), the n most
\* significant bits set, and getMask(n) = 2^n - 1, the n least significant
\* bits set, both in 0..4294967295.
C9_MaskValues ==
  /\ op = "getPrefixMask" =>
       /\ IsUint32(result)
       /\ result = Sub(Pow2(32), Pow2(32 - args[1]))
       /\ \A i \in 0..31 : BitOf(result, i) = 1 <=> i >= 32 - args[1]
  /\ op = "getMask" =>
       /\ IsUint32(result)
       /\ result = Sub(Pow2(args[1]), Num(0, 1))
       /\ \A i \in 0..31 : BitOf(result, i) = 1 <=> i < args[1]

\* getPrefixMask(32) or getMask(32) has returned 4294967295
C9_Witness ==
  /\ op \in {"getPrefixMask", "getMask"}
  /\ args[1] = 32
  /\ result = MaxIpNum

\* ------------------------------------------------------------------------
\* C10

\* the prefix sizes p whose block at a starts at a and ends at or before e
Qualifying(a, e) ==
  { p \in 0..32 : Aligned(a, 32 - p) /\ Le(BlockHigh(a, 32 - p), e) }

\* the prefix sizes that pass the test of getOptimalRange's loop
Passing(a, e) ==
  { p \in 0..32 : /\ getMaskRange(a, p).ipLow = a
                  /\ Le(getMaskRange(a, p).ipHigh, e) }

\* C10: for valid addresses a <= e, getOptimalRange(a, e) returns the block
\* of the smallest p among all p in 0..32 with getMaskRange(a, p).ipLow = a
\* and getMaskRange(a, p).ipHigh <= e; the qualifying prefix sizes are a
\* contiguous interval that ends at 32.
C10_SmallestQualifying ==
  op = "getOptimalRange" =>
    /\ Passing(args[1], args[2]) = Qualifying(args[1], args[2])
    /\ 32 \in Qualifying(args[1], args[2])
    /\ \A p \in Qualifying(args[1], args[2]) :
         \A q \in p..32 : q \in Qualifying(args[1], args[2])
    /\ result.type = "SubnetAnalysis"
    /\ result.prefixSize \in Qualifying(args[1], args[2])
    /\ \A p \in Qualifying(args[1], args[2]) : result.prefixSize <= p
    /\ result = getMaskRange(args[1], result.prefixSize)

\* getOptimalRange has returned a block wider than one address that ends
\* before the end of the range
C10_Witness ==
  /\ op = "getOptimalRange"
  /\ result.type = "SubnetAnalysis"
  /\ result.prefixSize < 32
  /\ Lt(result.ipHigh, args[2])

\* ------------------------------------------------------------------------
\* C11

\* the address a lies in the block of r, and the block holds 2^(32-p)
\* addresses
BlockHolds(r, a, p) ==
  /\ Le(r.ipLow, a)
  /\ Le(a, r.ipHigh)
  /\ Add(Sub(r.ipHigh, r.ipLow), Num(0, 1)) = Pow2(32 - p)

\* C11: for a valid address a and p in 0..32 the block of getMaskRange(a, p)
\* contains a, ipLow <= a <= ipHigh, and holds exactly 2^(32-p) addresses,
\* ipHigh - ipLow + 1 = 2^(32-p); the same holds for the descriptors that
\* calculateSubnetMask(a, p) and calculateCIDRPrefix(a, m) return.
C11_BlockContainsAddress ==
  /\ op = "getMaskRange" =>
       /\ result.type = "SubnetAnalysis"
       /\ result.prefixSize = args[2]
       /\ BlockHolds(result, args[1], args[2])
  /\ (op = "calculateSubnetMask" /\ IsAddress(args[1]) /\ args[2] \in 0..32) =>
       /\ result.type = "SubnetAnalysis"
       /\ result.prefixSize = args[2]
       /\ BlockHolds(result, toDecimal(args[1]), args[2])
  /\ CalledWithAddresses("calculateCIDRPrefix") =>
       /\ result.type = "SubnetAnalysis"
       /\ result.prefixSize \in 0..32
       /\ BlockHolds(result, toDecimal(args[1]), result.prefixSize)

\* calculateSubnetMask has returned, for an address given as a string that
\* is not the first of its block, a block of more than one address and
\* less than the whole address space
C11_Witness ==
  /\ op = "calculateSubnetMask"
  /\ args[1].type = "string"
  /\ args[2] \in 1..31
  /\ result.type = "SubnetAnalysis"
  /\ Lt(result.ipLow, toDecimal(args[1]))
  /\ Lt(toDecimal(args[1]), result.ipHigh)

\* ------------------------------------------------------------------------
\* C12

\* calculate is at the test of its while loop
AtWhile == op = "calculate.while"

\* At the test of the loop the end is an address.  When the test passes,
\* the cursor is an address and getOptimalRange(cursor, end) is a block that
\* starts at the cursor and ends at or before the end.  When it fails, the
\* cursor is end + 1 and at least one block has been collected; for the end
\* 4294967295 the cursor is 4294967296, not 0.
IterationInvariant ==
  AtWhile =>
    /\ IsUint32(result.ipEndNum)
    /\ IF Le(result.ipCurNum, result.ipEndNum)
       THEN /\ IsUint32(result.ipCurNum)
            /\ LET block == getOptimalRange(result.ipCurNum, result.ipEndNum)
               IN  /\ block.type = "SubnetAnalysis"
                   /\ block.ipLow = result.ipCurNum
                   /\ Le(result.ipCurNum, block.ipHigh)
                   /\ Le(block.ipHigh, result.ipEndNum)
       ELSE /\ result.ipCurNum = Add(result.ipEndNum, Num(0, 1))
            /\ result.ipCurNum # Num(0, 0)
            /\ Len(result.rangeCollection) >= 1
            /\ result.ipEndNum = MaxIpNum => result.ipCurNum = Num(Base, 0)

\* calculate returns an array for every range of addresses start <= end,
\* the array that the loop as a whole computes
ReturnsArray ==
  (op = "calculate" /\ ~BadRange) =>
    /\ result.type = "array"
    /\ result = calculate(args[1], args[2])

\* An iteration moves the cursor up, by the size of the one block that it
\* collects, and not beyond end + 1: the distance from the cursor to
\* end + 1 is a natural number that every iteration makes smaller, so the
\* loop ends.  A step from the test of the loop is an iteration or the
\* return of the array.
CursorAdvances ==
  AtWhile =>
    \/ /\ AtWhile'
       /\ Lt(result.ipCurNum, result'.ipCurNum)
       /\ Le(result'.ipCurNum, Add(result.ipEndNum, Num(0, 1)))
       /\ Len(result'.rangeCollection) = Len(result.rangeCollection) + 1
       /\ result'.ipEndNum = result.ipEndNum
    \/ /\ op' = "calculate"
       /\ result'.type = "array"
       /\ Lt(result.ipEndNum, result.ipCurNum)

\* C12: for valid addresses start <= end the loop of calculate terminates
\* with a result: every iteration calls getOptimalRange(cur, end) with
\* cur <= end <= 4294967295 and gets a block with ipLow = cur and
\* cur <= ipHigh <= end, the cursor strictly increases, null is never
\* returned from inside the loop, and for end = 4294967295 the last cursor
\* is 4294967296, which ends the loop.
C12_LoopTerminates ==
  /\ []IterationInvariant
  /\ []ReturnsArray
  /\ [][CursorAdvances]_vars

\* the loop is at its last test for a range of three or more blocks that
\* ends at 4294967295: the cursor is 4294967296
C12_Witness ==
  /\ AtWhile
  /\ result.ipEndNum = MaxIpNum
  /\ result.ipCurNum = Num(Base, 0)
  /\ Len(result.rangeCollection) >= 3

====
